---- MODULE Spec2Model ----
(***************************************************************************)
(* Bakkal price monitor: the orchestrator run() of main.py with the store  *)
(* access of storage.py, the extractor of parser.py, the notifier of       *)
(* alerts.py and the text chunker of scraper.py.                           *)
(*                                                                         *)
(* Prices are integers (kurus).  Percentages are integers in hundredths of *)
(* a percent: 500 is 5.00 %.  The unrounded comparison drop_pct >=         *)
(* threshold is made exactly, by cross multiplication.                     *)
(***************************************************************************)
EXTENDS Integers, Sequences, FiniteSets, TLC

VARIABLES
    environ,          \* os.environ as load_config reads it
    runs,             \* number of calls of run() so far
    pc,               \* position of run() in main.py
    threshold,        \* config["PRICE_DROP_THRESHOLD"], hundredths of a percent
    seen_urls,        \* main.py:60
    unique_products,  \* main.py:61
    cimri_items,      \* main.py:78, the chunks not parsed yet
    idx,              \* position of the loop of main.py:130 in unique_products
    last_price,       \* main.py:138, kept across the sleep of main.py:157
    total_scraped,    \* main.py:126
    total_alerts,     \* main.py:127
    total_errors,     \* main.py:128
    price_history,    \* the table price_history of the store
    products,         \* the table products of the store
    now,              \* the clock read by datetime.now, storage.py:126
    today,            \* the date of the clock
    faults,           \* number of failures of the store and the notifier so far
    collected,        \* history: every candidate record offered to the dedup, in order
    log               \* history: the calls of get_last_price, send_price_drop_alert,
                      \* upsert_price and send_daily_summary, in order

run_vars == <<environ, runs, pc, threshold, seen_urls, unique_products, cimri_items, idx,
              last_price, total_scraped, total_alerts, total_errors,
              price_history, products, now, today, faults, collected, log>>

VARIABLES
    text,             \* chunk_text: the argument text, a sequence of characters
    chunk_size,       \* chunk_text: the argument chunk_size
    start,            \* scraper.py:495
    chunks,           \* scraper.py:494
    ck_pc             \* position of chunk_text

chunk_vars == <<text, chunk_size, start, chunks, ck_pc>>

VARIABLES
    raw,              \* _parse_tr_price: the argument raw, a sequence of characters
    parsed,           \* _parse_tr_price: the value returned, None before the return
    pr_pc             \* position of _parse_tr_price

price_vars == <<raw, parsed, pr_pc>>

VARIABLES
    ex_raw,           \* parse_chunk: the argument raw, a ProductRaw
    ex_resp,          \* parse_chunk: what the language-model client does
    ex_out,           \* parse_chunk: the list returned, None before the return
    ex_pc             \* position of parse_chunk

extract_vars == <<ex_raw, ex_resp, ex_out, ex_pc>>

VARIABLES
    fl_last,          \* the last price, in hundredths of a lira
    fl_cur,           \* the current price, in hundredths of a lira
    fl_thr,           \* the threshold, in hundredths of a percent
    fl_out,           \* the alert decision and the percentage stored, None before
    fl_pc             \* position of the decision

float_vars == <<fl_last, fl_cur, fl_thr, fl_out, fl_pc>>

VARIABLES
    bot_pc,           \* position of the bot process
    offset,           \* the offset of run_bot
    updates,          \* the updates of the batch not yet iterated over
    server,           \* the update ids Telegram still holds, oldest first
    next_update,      \* the id of the next update a user causes
    handled,          \* the update ids handle_message returned for
    bot_faults        \* failures so far

bot_vars == <<bot_pc, offset, updates, server, next_update, handled, bot_faults>>

VARIABLES
    o_unique,         \* unique_products, the same in both runs
    o_pc,             \* position of each run
    o_idx,            \* index of the record each run is at
    o_last,           \* last_price of each run
    o_history,        \* table price_history
    o_sent,           \* the price-drop alerts sent, in order
    o_now,            \* clock of the store
    o_holder          \* the run the event loop is executing, 0 if none

overlap_vars == <<o_unique, o_pc, o_idx, o_last, o_history, o_sent, o_now,
                  o_holder>>

vars == <<run_vars, chunk_vars, price_vars, extract_vars, float_vars, bot_vars,
          overlap_vars>>

\* the functions modelled on their own, outside run()
side_vars == <<chunk_vars, price_vars, extract_vars, float_vars, bot_vars,
               overlap_vars>>

\* what run() never writes
other_vars == <<environ, runs, side_vars>>

\* what chunk_text, _parse_tr_price and parse_chunk leave alone
chunk_rest == <<run_vars, price_vars, extract_vars, float_vars, bot_vars,
                overlap_vars>>
price_rest == <<run_vars, chunk_vars, extract_vars, float_vars, bot_vars,
                overlap_vars>>
extract_rest == <<run_vars, chunk_vars, price_vars, float_vars, bot_vars,
                  overlap_vars>>
float_rest == <<run_vars, chunk_vars, price_vars, extract_vars, bot_vars,
                overlap_vars>>
bot_rest == <<run_vars, chunk_vars, price_vars, extract_vars, float_vars,
              overlap_vars>>
overlap_rest == <<run_vars, chunk_vars, price_vars, extract_vars, float_vars,
                  bot_vars>>

\* Optional[float]: None, or Some(x) holding the value x
None == <<>>
Some(x) == <<x>>
Val(o) == o[1]

-----------------------------------------------------------------------------
(* Bounds and input domains *)

MaxCollected == 2     \* candidate records collected in one run, all sources together
MaxChunks == 2        \* chunks returned by scrape_cimri
MaxFaults == 1        \* failures of the store and the notifier in one run
MaxTextLen == 5       \* characters of the text given to chunk_text
MaxChunkSize == 3     \* the chunk_size given to chunk_text
MaxRuns == 2          \* calls of run(), one after the other

ProductUrls == {"u1", "u2"}
CIMRI_TARGET_URLS == <<"cimri/market/migros", "cimri/market">>
Urls == ProductUrls \cup {CIMRI_TARGET_URLS[k] : k \in DOMAIN CIMRI_TARGET_URLS}

\* what the language model may put in the product_url of an item
LlmUrls == {"", "n/a", "u1"}
LlmPrices == {0, 100}
ScrapedPrices == {90, 96}
StorePrices == {96, 100}
Thresholds == {0, 500, 1000}
Whitespace == {" ", "\n"}
Chars == {"a", "b"} \cup Whitespace

-----------------------------------------------------------------------------
(* Pure helpers *)

Abs(n) == IF n < 0 THEN 0 - n ELSE n

\* round(n / d) to the nearest integer, ties to even, as Python's round
RoundDiv(n, d) ==
    LET a == Abs(n)
        q == a \div d
        r == a % d
        m == IF 2 * r > d \/ (2 * r = d /\ q % 2 = 1) THEN q + 1 ELSE q
    IN  IF n < 0 THEN 0 - m ELSE m

ProductData(name, price, market, url) ==
    [product_name |-> name, current_price |-> price,
     market_name |-> market, product_url |-> url]

Event(op, url, price, prev, pct, ok) ==
    [op |-> op, url |-> url, price |-> price, prev |-> prev, pct |-> pct, ok |-> ok]

SeqsUpTo(S, n) == UNION {[1..k -> S] : k \in 0..n}

\* str.strip(): leading and trailing whitespace removed
RECURSIVE LStrip(_)
LStrip(s) ==
    IF s # <<>> /\ Head(s) \in Whitespace THEN LStrip(Tail(s)) ELSE s

RECURSIVE RStrip(_)
RStrip(s) ==
    IF s # <<>> /\ s[Len(s)] \in Whitespace
    THEN RStrip(SubSeq(s, 1, Len(s) - 1)) ELSE s

Strip(s) == RStrip(LStrip(s))

-----------------------------------------------------------------------------
(* parser.py: the extractor *)

\* str.upper on the product_url values the model uses
Upper(s) == IF s = "n/a" THEN "N/A" ELSE s

\* the fallback for the empty URL only
IsPlaceholderUrlEmptyOnly(url) == url = ""

\* parser.py:109: the URL is missing or a placeholder
IsPlaceholderUrl(url) == url = "" \/ Upper(url) \in {"N/A", "NONE", "NULL", ""}

\* parser.py:108-111, one item of the response that ProductData accepts
parse_item(item, source_url) ==
    ProductData("p", item.current_price, "cimri",
                IF IsPlaceholderUrl(item.product_url) THEN source_url
                ELSE item.product_url)

\* scraper.py:85-95: a chunk and the page it came from
ProductRaw(content, source_url) == [content |-> content, source_url |-> source_url]

\* what makes the body of the try of parser.py:87-119 raise before the loop:
\* the client raises, json.loads raises, the JSON value has no get, the value
\* of "products" cannot be iterated; and the empty response of parser.py:100-102
LlmFailures ==
    {"exception", "empty_response", "invalid_json", "not_an_object",
     "products_not_iterable"}
LlmItems == [well_formed : {TRUE}, product_url : LlmUrls, current_price : LlmPrices]

\* an item ProductData(**item) raises on: not a mapping, a field missing or of
\* the wrong type
MalformedItem == [well_formed |-> FALSE, product_url |-> "", current_price |-> 0]

\* the loop of parser.py:106-113 without the try of parser.py:107: the
\* exception of an item leaves the loop
RECURSIVE parse_itemsNoInnerTry(_, _)
parse_itemsNoInnerTry(items, source_url) ==
    IF items = <<>> THEN [raised |-> FALSE, products |-> <<>>]
    ELSE IF ~Head(items).well_formed THEN [raised |-> TRUE, products |-> <<>>]
    ELSE LET rest == parse_itemsNoInnerTry(Tail(items), source_url)
         IN  [raised   |-> rest.raised,
              products |-> IF rest.raised THEN <<>>
                           ELSE <<parse_item(Head(items), source_url)>>
                                    \o rest.products]

\* the loop of parser.py:106-113: except Exception: continue
RECURSIVE parse_items(_, _)
parse_items(items, source_url) ==
    IF items = <<>> THEN [raised |-> FALSE, products |-> <<>>]
    ELSE LET rest == parse_items(Tail(items), source_url)
         IN  IF ~Head(items).well_formed THEN rest
             ELSE [raised   |-> rest.raised,
                   products |-> <<parse_item(Head(items), source_url)>>
                                    \o rest.products]

\* parser.py:76-123: resp.status is "ok" or a failure, resp.items the items of
\* the JSON object the client returned; an exception out of the loop is caught
\* by the except of parser.py:121-123
parse_chunk(raw_chunk, resp) ==
    IF Strip(raw_chunk.content) = <<>> THEN <<>>
    ELSE IF resp.status \in LlmFailures THEN <<>>
    ELSE LET looped == parse_items(resp.items, raw_chunk.source_url)
         IN  IF looped.raised THEN <<>> ELSE looped.products

\* the responses in run(): a malformed item is skipped, so a response with one
\* adds the same records as the response without it
LlmResponses(n) ==
    [status : LlmFailures, items : {<<>>}]
        \cup [status : {"ok"}, items : SeqsUpTo(LlmItems, n)]

\* the responses with malformed items among the others
ExtractorResponses(n) ==
    [status : LlmFailures, items : {<<>>}]
        \cup [status : {"ok"}, items : SeqsUpTo(LlmItems \cup {MalformedItem}, n)]

-----------------------------------------------------------------------------
(* main.py:60-121: deduplication *)

\* the seen-URL test left out
DedupKeepNoSeen(seen, url, price) == price > 0

\* the price test left out
DedupKeepNoPrice(seen, url, price) == url \notin seen

\* main.py:66, 86, 97, 112
DedupKeep(seen, url, price) == url \notin seen /\ price > 0

RECURSIVE DedupRest(_, _)
DedupRest(st, recs) ==
    IF recs = <<>> THEN st
    ELSE LET d == Head(recs)
             keep == DedupKeep(st.seen, d.product_url, d.current_price)
         IN  DedupRest([seen   |-> IF keep THEN st.seen \cup {d.product_url}
                                   ELSE st.seen,
                        unique |-> IF keep THEN Append(st.unique, d)
                                   ELSE st.unique],
                       Tail(recs))

\* the loop starting at the second record
DedupLoopSkipFirst(st, recs) ==
    IF recs = <<>> THEN st ELSE DedupRest(st, Tail(recs))

\* the for loops of main.py:65-74, 85-89, 96-105, 111-120 over the records recs,
\* from the state st = [seen, unique]
RECURSIVE DedupLoop(_, _)
DedupLoop(st, recs) ==
    IF recs = <<>> THEN st
    ELSE LET d == Head(recs)
             keep == DedupKeep(st.seen, d.product_url, d.current_price)
         IN  DedupLoop([seen   |-> IF keep THEN st.seen \cup {d.product_url}
                                   ELSE st.seen,
                        unique |-> IF keep THEN Append(st.unique, d)
                                   ELSE st.unique],
                       Tail(recs))

AddRecords(recs) ==
    LET st == DedupLoop([seen |-> seen_urls, unique |-> unique_products], recs)
    IN  /\ seen_urls' = st.seen
        /\ unique_products' = st.unique
        /\ collected' = collected \o recs

Budget == MaxCollected - Len(collected)

-----------------------------------------------------------------------------
(* storage.py: the store *)

RowsOf(ph, url) == {r \in ph : r.product_url = url}

\* the lookup over the rows of earlier days only
get_last_priceEarlierDay(ph, url, store_up) ==
    LET earlier == {r \in RowsOf(ph, url) : r.scraped_date < today}
    IN  IF ~store_up \/ earlier = {} THEN None
        ELSE LET newest == CHOOSE r \in earlier :
                               \A q \in earlier : q.scraped_at <= r.scraped_at
             IN  Some(newest.current_price)

\* the lookup answering from the rows although the query raised
get_last_priceIgnoreFailure(ph, url, store_up) ==
    IF RowsOf(ph, url) = {} THEN None
    ELSE LET newest == CHOOSE r \in RowsOf(ph, url) :
                           \A q \in RowsOf(ph, url) : q.scraped_at <= r.scraped_at
         IN  Some(newest.current_price)

\* storage.py:29-48: store_up is FALSE when the query raises
get_last_price(ph, url, store_up) ==
    IF ~store_up \/ RowsOf(ph, url) = {} THEN None
    ELSE LET newest == CHOOSE r \in RowsOf(ph, url) :
                           \A q \in RowsOf(ph, url) : q.scraped_at <= r.scraped_at
         IN  Some(newest.current_price)

\* the percentage rounded to a whole percent instead of 2 decimals
PriceDropPctWhole(previous_price, current_price) ==
    IF previous_price # None /\ Val(previous_price) > 0
    THEN Some(100 * RoundDiv((Val(previous_price) - current_price) * 100,
                             Val(previous_price)))
    ELSE None

\* the percentage kept only for a strict decrease
PriceDropPctOnlyDrop(previous_price, current_price) ==
    IF previous_price # None /\ current_price < Val(previous_price)
    THEN Some(RoundDiv((Val(previous_price) - current_price) * 10000,
                       Val(previous_price)))
    ELSE None

\* storage.py:130-135
PriceDropPct(previous_price, current_price) ==
    IF previous_price # None /\ Val(previous_price) > 0
    THEN Some(RoundDiv((Val(previous_price) - current_price) * 10000,
                       Val(previous_price)))
    ELSE None

\* the current price written as previous price on a first sighting
HistoryRecordSelf(product, previous_price, date, at) ==
    LET prev == IF previous_price = None THEN Some(product.current_price)
                ELSE previous_price
    IN  [product_url    |-> product.product_url,
         product_name   |-> product.product_name,
         market_name    |-> product.market_name,
         current_price  |-> product.current_price,
         previous_price |-> prev,
         price_drop_pct |-> PriceDropPct(prev, product.current_price),
         scraped_date   |-> date,
         scraped_at     |-> at]

\* the previous price read back from the store after the write: the price
\* just written
HistoryRecordReadBack(product, previous_price, date, at) ==
    [product_url    |-> product.product_url,
     product_name   |-> product.product_name,
     market_name    |-> product.market_name,
     current_price  |-> product.current_price,
     previous_price |-> Some(product.current_price),
     price_drop_pct |-> PriceDropPct(Some(product.current_price),
                                     product.current_price),
     scraped_date   |-> date,
     scraped_at     |-> at]

\* storage.py:158-167
HistoryRecord(product, previous_price, date, at) ==
    [product_url    |-> product.product_url,
     product_name   |-> product.product_name,
     market_name    |-> product.market_name,
     current_price  |-> product.current_price,
     previous_price |-> previous_price,
     price_drop_pct |-> PriceDropPct(previous_price, product.current_price),
     scraped_date   |-> date,
     scraped_at     |-> at]

\* a plain insert, without on_conflict
UpsertHistoryInsert(ph, record) == ph \cup {record}

\* storage.py:170-174: upsert with on_conflict = product_url, scraped_date
UpsertHistory(ph, record) ==
    {r \in ph : ~(r.product_url = record.product_url
                  /\ r.scraped_date = record.scraped_date)} \cup {record}

\* storage.py:138-152: upsert with on_conflict = product_url
UpsertProducts(tbl, product, at) ==
    {r \in tbl : r.product_url # product.product_url}
        \cup {[product_url  |-> product.product_url,
               product_name |-> product.product_name,
               market_name  |-> product.market_name,
               latest_price |-> product.current_price,
               last_seen_at |-> at]}

-----------------------------------------------------------------------------
(* main.py:130-161: the reconciliation loop *)

\* main.py:131
IsInvalid(product) == product.product_url = "" \/ product.current_price <= 0

\* the threshold compared with > instead of >=
ShouldAlertStrict(last, current_price, thr) ==
    /\ last # None
    /\ current_price < Val(last)
    /\ (Val(last) - current_price) * 10000 > thr * Val(last)

\* main.py:140-142: the alert is due; thr in hundredths of a percent
ShouldAlert(last, current_price, thr) ==
    /\ last # None
    /\ current_price < Val(last)
    /\ (Val(last) - current_price) * 10000 >= thr * Val(last)

\* the loop left after its first iteration
PcAfterBreak(i, unique) == "summary"

\* the collection taken up again between two records
PcAfterCollectAgain(i, unique) ==
    IF i > Len(unique) THEN "summary"
    ELSE IF i = 1 THEN "reconcile" ELSE "essen"

\* main.py:130: the next iteration of the loop, or the code after it
PcAfter(i, unique) == IF i > Len(unique) THEN "summary" ELSE "reconcile"

B2N(b) == IF b THEN 0 ELSE 1

\* the record taken again when its upsert_price returned False
NextIdxRetry(i, success) == IF success THEN i + 1 ELSE i

\* main.py:130: the for loop goes to the next record whatever the iteration did
NextIdx(i, success) == i + 1

\* total_errors left as it is when upsert_price returned False
ErrorsAfterUpsertIgnore(errors, success) == errors

\* main.py:160-161
ErrorsAfterUpsert(errors, success) == IF success THEN errors ELSE errors + 1

\* main.py:159-161 with storage.py:112-183: persist product and go to the next
\* record; log0 and faults0 are the log and the failures up to this call
Persist(product, previous_price, log0, faults0) ==
    \E products_ok, write_ok \in BOOLEAN :
        LET record == HistoryRecord(product, previous_price, today, now)
        IN  /\ faults0 + B2N(products_ok) + B2N(write_ok) <= MaxFaults
            /\ faults' = faults0 + B2N(products_ok) + B2N(write_ok)
            /\ products' = IF products_ok THEN UpsertProducts(products, product, now)
                           ELSE products
            /\ price_history' = IF write_ok THEN UpsertHistory(price_history, record)
                                ELSE price_history
            /\ total_errors' = ErrorsAfterUpsert(total_errors, write_ok)
            /\ log' = Append(log0, Event("upsert_price", product.product_url,
                                         record.current_price,
                                         record.previous_price,
                                         record.price_drop_pct, write_ok))
            /\ now' = now + 1
            /\ idx' = NextIdx(idx, write_ok)
            /\ pc' = PcAfter(NextIdx(idx, write_ok), unique_products)
            /\ last_price' = None

-----------------------------------------------------------------------------
(* main.py:45-175: run() *)

loop_vars == <<idx, last_price, total_scraped, total_alerts, total_errors,
               price_history, products, now, faults, log>>

\* config.py:18-24
RequiredKeys ==
    {"SUPABASE_URL", "SUPABASE_KEY", "OPENAI_API_KEY", "TELEGRAM_BOT_TOKEN",
     "TELEGRAM_CHAT_ID"}

\* config.py:43: the default "5.0" of PRICE_DROP_THRESHOLD
DefaultThreshold == 500

\* os.environ.get(key, ""): the value of an unset variable is the empty string
EnvironGet(v) == IF v = None THEN <<>> ELSE Val(v)

\* config.py:30-32 without the strip()
IsMissingNoStrip(v) == EnvironGet(v) = <<>>

\* config.py:30-32: val = os.environ.get(key, "").strip(); not val
IsMissing(v) == Strip(EnvironGet(v)) = <<>>

\* config.py:12-53: load_config.  float() of a PRICE_DROP_THRESHOLD that is
\* not a number raises ValueError
load_config(env) ==
    LET missing == {key \in RequiredKeys : IsMissing(env.required[key])}
    IN  IF missing # {} THEN [raised |-> TRUE, PRICE_DROP_THRESHOLD |-> 0]
        ELSE IF env.threshold = None
             THEN [raised |-> FALSE, PRICE_DROP_THRESHOLD |-> DefaultThreshold]
        ELSE IF ~Val(env.threshold).is_float
             THEN [raised |-> TRUE, PRICE_DROP_THRESHOLD |-> 0]
        ELSE [raised |-> FALSE, PRICE_DROP_THRESHOLD |-> Val(env.threshold).value]

\* main.py:52-53: an exception of load_config leaves run() at once
LoadConfig ==
    /\ pc = "config"
    /\ LET config == load_config(environ)
       IN  /\ pc' = IF config.raised THEN "aborted" ELSE "marketfiyati"
           /\ threshold' = IF config.raised THEN threshold
                           ELSE config.PRICE_DROP_THRESHOLD
    /\ UNCHANGED <<seen_urls, unique_products, cimri_items, collected,
                   today>>
    /\ UNCHANGED loop_vars
    /\ UNCHANGED other_vars

\* main.py:63-75: fetch_all_marketfiyati returns ProductRaw chunks
\* (scraper.py:155-179); d["product_url"] on a ProductRaw raises TypeError, so
\* the loop of main.py:65 ends the run with the first chunk
FetchMarketfiyati ==
    /\ pc = "marketfiyati"
    /\ \E mf_chunks \in BOOLEAN :
           pc' = IF mf_chunks THEN "crashed" ELSE "cimri"
    /\ UNCHANGED <<threshold, seen_urls, unique_products, cimri_items, collected,
                   today>>
    /\ UNCHANGED loop_vars
    /\ UNCHANGED other_vars

\* the pages of the chunks scrape_cimri returns, in crawl order (scraper.py:215)
CimriChunkLists ==
    {c \in SeqsUpTo(DOMAIN CIMRI_TARGET_URLS, MaxChunks) :
        \A k \in 1..(Len(c) - 1) : c[k] <= c[k + 1]}

\* main.py:78-79 with scraper.py:186-273; the crawler failing to start
\* (scraper.py:214) raises out of scrape_cimri and out of run()
ScrapeCimri ==
    /\ pc = "cimri"
    /\ \/ /\ pc' = "crashed"
          /\ UNCHANGED cimri_items
       \/ \E c \in CimriChunkLists :
              /\ cimri_items' = [k \in 1..Len(c) |-> CIMRI_TARGET_URLS[c[k]]]
              /\ pc' = IF c = <<>> THEN "essen" ELSE "cimri_parse"
    /\ UNCHANGED <<threshold, seen_urls, unique_products, collected, today>>
    /\ UNCHANGED loop_vars
    /\ UNCHANGED other_vars

\* main.py:82-90: one chunk
ParseCimriChunk ==
    /\ pc = "cimri_parse"
    /\ \E resp \in LlmResponses(Budget) :
           AddRecords(parse_chunk(ProductRaw(<<"a">>, Head(cimri_items)), resp))
    /\ cimri_items' = Tail(cimri_items)
    /\ pc' = IF Tail(cimri_items) = <<>> THEN "essen" ELSE "cimri_parse"
    /\ UNCHANGED <<threshold, today>>
    /\ UNCHANGED loop_vars
    /\ UNCHANGED other_vars

\* the dicts of scraper.py:356-361 and 458-463: the price is positive
\* (scraper.py:346, 449) and the URL is the link or the page (scraper.py:350-354)
DirectDicts(market) ==
    {ProductData("p", price, market, url) : price \in ScrapedPrices, url \in ProductUrls}

\* main.py:94-106 with scraper.py:296-377
ScrapeEssen ==
    /\ pc = "essen"
    /\ \/ /\ pc' = "crashed"
          /\ UNCHANGED <<seen_urls, unique_products, collected>>
       \/ /\ \E essen_dicts \in SeqsUpTo(DirectDicts("Essen JET"), Budget) :
                 AddRecords(essen_dicts)
          /\ pc' = "bizim"
    /\ UNCHANGED <<threshold, cimri_items, today>>
    /\ UNCHANGED loop_vars
    /\ UNCHANGED other_vars

\* main.py:109-128 with scraper.py:395-479
ScrapeBizim ==
    /\ pc = "bizim"
    /\ \/ /\ pc' = "crashed"
          /\ UNCHANGED <<seen_urls, unique_products, collected>>
       \/ /\ \E bizim_dicts \in SeqsUpTo(DirectDicts("Bizim Toptan"), Budget) :
                 AddRecords(bizim_dicts)
          /\ pc' = PcAfter(1, unique_products')
    /\ UNCHANGED <<threshold, cimri_items, today>>
    /\ UNCHANGED loop_vars
    /\ UNCHANGED other_vars

\* main.py:130-161: one record, up to the sleep of main.py:157 when an alert
\* was attempted, to the end of the iteration otherwise
Reconcile ==
    /\ pc = "reconcile"
    /\ LET product == unique_products[idx]
       IN  IF IsInvalid(product)
           THEN /\ total_errors' = total_errors + 1
                /\ idx' = idx + 1
                /\ pc' = PcAfter(idx + 1, unique_products)
                /\ UNCHANGED <<last_price, total_scraped, total_alerts,
                               price_history, products, now, faults, log>>
           ELSE \E store_up \in BOOLEAN :
                    LET lp == get_last_price(price_history, product.product_url,
                                             store_up)
                        looked == Append(log, Event("get_last_price",
                                      product.product_url, product.current_price,
                                      lp, None, store_up))
                        f1 == faults + B2N(store_up)
                    IN  /\ f1 <= MaxFaults
                        /\ total_scraped' = total_scraped + 1
                        /\ IF ShouldAlert(lp, product.current_price, threshold)
                           THEN \E sent \in BOOLEAN :
                                    /\ f1 + B2N(sent) <= MaxFaults
                                    /\ faults' = f1 + B2N(sent)
                                    /\ total_alerts' = IF sent THEN total_alerts + 1
                                                       ELSE total_alerts
                                    /\ log' = Append(looked,
                                          Event("send_price_drop_alert",
                                                product.product_url,
                                                product.current_price, lp, None,
                                                sent))
                                    /\ last_price' = lp
                                    /\ pc' = "alert_sleep"
                                    /\ UNCHANGED <<idx, total_errors, price_history,
                                                   products, now>>
                           ELSE /\ Persist(product, lp, looked, f1)
                                /\ UNCHANGED total_alerts
    /\ UNCHANGED <<threshold, seen_urls, unique_products, cimri_items, collected,
                   today>>
    /\ UNCHANGED other_vars

\* main.py:159-161 after the sleep of main.py:157
PersistAfterAlert ==
    /\ pc = "alert_sleep"
    /\ Persist(unique_products[idx], last_price, log, faults)
    /\ UNCHANGED <<total_scraped, total_alerts>>
    /\ UNCHANGED <<threshold, seen_urls, unique_products, cimri_items, collected,
                   today>>
    /\ UNCHANGED other_vars

\* main.py:164-175
SendSummary ==
    /\ pc = "summary"
    /\ log' = Append(log, Event("send_daily_summary", "", total_scraped,
                                Some(total_alerts), Some(total_errors), TRUE))
    /\ pc' = "done"
    /\ UNCHANGED <<idx, last_price, total_scraped, total_alerts, total_errors,
                   price_history, products, now, faults>>
    /\ UNCHANGED <<threshold, seen_urls, unique_products, cimri_items, collected,
                   today>>
    /\ UNCHANGED other_vars

\* the rows the store holds before the run: at most one earlier observation of
\* each product
InitHistories ==
    {{[product_url |-> u, product_name |-> "p", market_name |-> "m",
       current_price |-> Val(f[u]), previous_price |-> None, price_drop_pct |-> None,
       scraped_date |-> 0, scraped_at |-> 0] : u \in {v \in ProductUrls : f[v] # None}}
     : f \in [ProductUrls -> {Some(p) : p \in StorePrices} \cup {None}]}

\* the environment of a run that has every required setting
EnvValues == {None, Some(<<>>), Some(<<" ">>), Some(<<"v">>)}
EnvThresholds ==
    {None, Some([is_float |-> FALSE, value |-> 0])}
    \cup {Some([is_float |-> TRUE, value |-> t]) : t \in Thresholds}
Environs == [required : [RequiredKeys -> EnvValues], threshold : EnvThresholds]
CompleteEnvirons ==
    {[required |-> [key \in RequiredKeys |-> Some(<<"v">>)],
      threshold |-> Some([is_float |-> TRUE, value |-> t])] : t \in Thresholds}

BotIdle ==
    /\ bot_pc = "idle"
    /\ offset = 0
    /\ updates = <<>>
    /\ server = <<>>
    /\ next_update = 1
    /\ handled = {}
    /\ bot_faults = 0

OverlapIdle ==
    /\ o_unique = <<>>
    /\ o_pc = <<>>
    /\ o_idx = <<>>
    /\ o_last = <<>>
    /\ o_history = {}
    /\ o_sent = <<>>
    /\ o_now = 1
    /\ o_holder = 0

FloatIdle ==
    /\ fl_last = 1
    /\ fl_cur = 1
    /\ fl_thr = 0
    /\ fl_out = None
    /\ fl_pc = "idle"

ExtractIdle ==
    /\ ex_raw = ProductRaw(<<>>, "")
    /\ ex_resp = [status |-> "ok", items |-> <<>>]
    /\ ex_out = None
    /\ ex_pc = "idle"

PriceIdle ==
    /\ raw = <<>>
    /\ parsed = None
    /\ pr_pc = "idle"

ChunkIdle ==
    /\ text = <<>>
    /\ chunk_size = 1
    /\ start = 0
    /\ chunks = <<>>
    /\ ck_pc = "idle"

Init ==
    /\ environ \in CompleteEnvirons
    /\ runs = 1
    /\ pc = "config"
    /\ threshold = 0
    /\ seen_urls = {}
    /\ unique_products = <<>>
    /\ cimri_items = <<>>
    /\ idx = 1
    /\ last_price = None
    /\ total_scraped = 0
    /\ total_alerts = 0
    /\ total_errors = 0
    /\ price_history \in InitHistories
    /\ products = {}
    /\ now = 1
    /\ today = 1
    /\ faults = 0
    /\ collected = <<>>
    /\ log = <<>>
    /\ ChunkIdle
    /\ PriceIdle
    /\ ExtractIdle
    /\ FloatIdle
    /\ BotIdle
    /\ OverlapIdle

Next ==
    \/ LoadConfig
    \/ FetchMarketfiyati
    \/ ScrapeCimri
    \/ ParseCimriChunk
    \/ ScrapeEssen
    \/ ScrapeBizim
    \/ Reconcile
    \/ PersistAfterAlert
    \/ SendSummary

Spec == Init /\ [][Next]_vars

\* main.py:182 and api.py:229-250: run() is called again, by the next cron
\* invocation or the next trigger, later on the same day or on the next day;
\* the store is what the runs before left
StartRun ==
    /\ pc \in {"done", "crashed"}
    /\ runs < MaxRuns
    /\ runs' = runs + 1
    /\ pc' = "config"
    /\ threshold' = 0
    /\ seen_urls' = {}
    /\ unique_products' = <<>>
    /\ cimri_items' = <<>>
    /\ idx' = 1
    /\ last_price' = None
    /\ total_scraped' = 0
    /\ total_alerts' = 0
    /\ total_errors' = 0
    /\ now' = now + 1
    /\ today' \in {today, today + 1}
    /\ UNCHANGED <<environ, price_history, products, faults, collected, log>>
    /\ UNCHANGED side_vars

NextRerun ==
    \/ Next
    \/ StartRun

\* the first run finds one earlier observation of each product, at 100
InitRerun ==
    /\ Init
    /\ environ.threshold = Some([is_float |-> TRUE, value |-> 500])
    /\ \A u \in ProductUrls :
           \E r \in price_history : r.product_url = u /\ r.current_price = 100

SpecRerun == InitRerun /\ [][NextRerun]_vars

\* runs of every environment, over a store that holds one earlier observation
\* of each product
InitConfig ==
    /\ environ \in Environs
    /\ runs = 1
    /\ pc = "config"
    /\ threshold = 0
    /\ seen_urls = {}
    /\ unique_products = <<>>
    /\ cimri_items = <<>>
    /\ idx = 1
    /\ last_price = None
    /\ total_scraped = 0
    /\ total_alerts = 0
    /\ total_errors = 0
    /\ price_history \in {h \in InitHistories :
           \A u \in ProductUrls :
               \E r \in h : r.product_url = u /\ r.current_price = 100}
    /\ products = {}
    /\ now = 1
    /\ today = 1
    /\ faults = 0
    /\ collected = <<>>
    /\ log = <<>>
    /\ ChunkIdle
    /\ PriceIdle
    /\ ExtractIdle
    /\ FloatIdle
    /\ BotIdle
    /\ OverlapIdle

SpecConfig == InitConfig /\ [][Next]_vars

-----------------------------------------------------------------------------
(* scraper.py:486-512: chunk_text.  Python's text[a:b] is SubSeq(text, a + 1, b) *)

Slice(t, a, b) == SubSeq(t, a + 1, b)

\* str.strip() leaves nothing
IsBlank(s) == \A k \in 1..Len(s) : s[k] \in Whitespace

\* text.rfind("\n", a, b): the last index in a..b-1 holding a newline, or -1
RFindNewline(t, a, b) ==
    LET at == {i \in a..(b - 1) : i < Len(t) /\ t[i + 1] = "\n"}
    IN  IF at = {} THEN 0 - 1 ELSE CHOOSE i \in at : \A j \in at : j <= i

\* the window one character too long
WindowEndPlusOne(s, size) == s + size + 1

\* scraper.py:497
WindowEnd(s, size) == s + size

\* the newline taken wherever rfind puts it, without the test of scraper.py:505
BreakPointNoGuard(t, s, end) == RFindNewline(t, s, end)

\* scraper.py:504-506
BreakPoint(t, s, end) ==
    LET break_point == RFindNewline(t, s, end)
    IN  IF break_point <= s THEN end ELSE break_point

\* scraper.py:510
NextStart(break_point) == break_point + 1

\* scraper.py:500-501, 508-509
AppendChunk(cs, chunk) == IF IsBlank(chunk) THEN cs ELSE Append(cs, chunk)

\* scraper.py:491-495
ChunkCall ==
    /\ ck_pc = "call"
    /\ IF Len(text) <= chunk_size
       THEN /\ chunks' = IF IsBlank(text) THEN <<>> ELSE <<text>>
            /\ ck_pc' = "done"
       ELSE /\ chunks' = <<>>
            /\ ck_pc' = "loop"
    /\ start' = 0
    /\ UNCHANGED <<text, chunk_size>>
    /\ UNCHANGED chunk_rest

\* scraper.py:496-510: one iteration of the while loop
ChunkStep ==
    /\ ck_pc = "loop"
    /\ start < Len(text)
    /\ LET end == WindowEnd(start, chunk_size)
       IN  IF end >= Len(text)
           THEN /\ chunks' = AppendChunk(chunks, Slice(text, start, Len(text)))
                /\ ck_pc' = "done"
                /\ UNCHANGED start
           ELSE LET break_point == BreakPoint(text, start, end)
                IN  /\ chunks' = AppendChunk(chunks, Slice(text, start, break_point))
                    /\ start' = NextStart(break_point)
                    /\ UNCHANGED ck_pc
    /\ UNCHANGED <<text, chunk_size>>
    /\ UNCHANGED chunk_rest

\* scraper.py:496, 512: the loop condition fails
ChunkReturn ==
    /\ ck_pc = "loop"
    /\ ~(start < Len(text))
    /\ ck_pc' = "done"
    /\ UNCHANGED <<text, chunk_size, start, chunks>>
    /\ UNCHANGED chunk_rest

RunIdle ==
    /\ environ \in CompleteEnvirons
    /\ environ.threshold = Some([is_float |-> TRUE, value |-> 0])
    /\ runs = 1
    /\ pc = "idle"
    /\ threshold = 0
    /\ seen_urls = {}
    /\ unique_products = <<>>
    /\ cimri_items = <<>>
    /\ idx = 1
    /\ last_price = None
    /\ total_scraped = 0
    /\ total_alerts = 0
    /\ total_errors = 0
    /\ price_history = {}
    /\ products = {}
    /\ now = 1
    /\ today = 1
    /\ faults = 0
    /\ collected = <<>>
    /\ log = <<>>

InitChunk ==
    /\ RunIdle
    /\ PriceIdle
    /\ ExtractIdle
    /\ FloatIdle
    /\ BotIdle
    /\ OverlapIdle
    /\ text \in SeqsUpTo(Chars, MaxTextLen)
    /\ chunk_size \in 1..MaxChunkSize
    /\ start = 0
    /\ chunks = <<>>
    /\ ck_pc = "call"

NextChunk ==
    \/ ChunkCall
    \/ ChunkStep
    \/ ChunkReturn

SpecChunk == InitChunk /\ [][NextChunk]_vars

\* chunk_text is executed without interruption: an iteration that can be
\* taken is taken
SpecChunkFair == SpecChunk /\ WF_vars(NextChunk)

-----------------------------------------------------------------------------
(* scraper.py:282-293: _parse_tr_price.  A string is a sequence of           *)
(* characters; "LIRA" stands for the currency sign and "NBSP" for the        *)
(* no-break space \xa0.  A float is kept exactly, as num / 10^scale, or is    *)
(* the value nan.                                                            *)

MaxGroups == 1        \* thousands groups of a well-formed price string
MaxRawLen == 3        \* characters of an arbitrary string given to _parse_tr_price

DigitValue ==
    "0" :> 0 @@ "1" :> 1 @@ "2" :> 2 @@ "3" :> 3 @@ "4" :> 4 @@
    "5" :> 5 @@ "6" :> 6 @@ "7" :> 7 @@ "8" :> 8 @@ "9" :> 9
Digits == DOMAIN DigitValue

Float(num, scale) == [kind |-> "num", num |-> num, scale |-> scale]
NaN == [kind |-> "nan", num |-> 0, scale |-> 0]

\* str.replace(old, ""), old one character
Remove(s, old) == SelectSeq(s, LAMBDA c : c # old)

\* str.replace(old, new), both one character
Replace(s, old, new) == [i \in DOMAIN s |-> IF s[i] = old THEN new ELSE s[i]]

\* scraper.py:288
CleanCurrency(s) == Strip(Remove(Remove(s, "LIRA"), "NBSP"))

\* scraper.py:289 with the periods kept
SwapSeparatorsKeepPeriods(cleaned) == Replace(cleaned, ",", ".")

\* scraper.py:289
SwapSeparators(cleaned) == Replace(Remove(cleaned, "."), ",", ".")

RECURSIVE DigitsToInt(_, _)
DigitsToInt(s, acc) ==
    IF s = <<>> THEN acc
    ELSE DigitsToInt(Tail(s), IF Head(s) \in Digits
                              THEN 10 * acc + DigitValue[Head(s)] ELSE acc)

\* float(s): decimal digits with at most one point and at least one digit, or
\* the word nan; every other string of the characters used here is a ValueError
IsDecimal(s) ==
    /\ \A i \in DOMAIN s : s[i] \in Digits \cup {"."}
    /\ Cardinality({i \in DOMAIN s : s[i] = "."}) <= 1
    /\ \E i \in DOMAIN s : s[i] \in Digits

FractionDigits(s) ==
    IF \E i \in DOMAIN s : s[i] = "."
    THEN Len(s) - (CHOOSE i \in DOMAIN s : s[i] = ".")
    ELSE 0

float(s) ==
    LET t == Strip(s)
    IN  IF IsDecimal(t)
        THEN [raised |-> FALSE, value |-> Float(DigitsToInt(t, 0), FractionDigits(t))]
        ELSE IF t = <<"n", "a", "n">>
        THEN [raised |-> FALSE, value |-> NaN]
        ELSE [raised |-> TRUE, value |-> Float(0, 1)]

\* scraper.py:282-293
_parse_tr_price(s) ==
    LET cleaned == SwapSeparators(CleanCurrency(s))
        f == float(cleaned)
    IN  IF f.raised THEN Float(0, 1) ELSE f.value

\* the well-formed Turkish price strings: integer part with period thousands
\* groups, a comma, two decimals, an optional currency sign
GrammarDigits == {"0", "1"}
RECURSIVE IntParts(_)
IntParts(groups) ==
    IF groups = 0 THEN UNION {[1..k -> GrammarDigits] : k \in 1..2}
    ELSE {p \o <<".">> \o g : p \in IntParts(groups - 1), g \in [1..3 -> GrammarDigits]}
CurrencySuffixes == {<<>>, <<"LIRA">>, <<" ", "LIRA">>, <<"NBSP", "LIRA">>}
ExamplePrices ==
    {<<"8", "4", ",", "9", "0", " ", "LIRA">>,
     <<"1", ".", "2", "4", "9", ",", "9", "0", " ", "LIRA">>}
TrPrices ==
    {p \o <<",">> \o d \o c :
        p \in UNION {IntParts(g) : g \in 0..MaxGroups},
        d \in [1..2 -> GrammarDigits], c \in CurrencySuffixes}
    \cup ExamplePrices
RawChars == GrammarDigits \cup {".", ",", "LIRA", "NBSP", " ", "n", "a"}

PriceReturn ==
    /\ pr_pc = "call"
    /\ parsed' = Some(_parse_tr_price(raw))
    /\ pr_pc' = "done"
    /\ UNCHANGED raw
    /\ UNCHANGED price_rest

InitPrice ==
    /\ RunIdle
    /\ ChunkIdle
    /\ ExtractIdle
    /\ FloatIdle
    /\ BotIdle
    /\ OverlapIdle
    /\ raw \in TrPrices \cup SeqsUpTo(RawChars, MaxRawLen)
    /\ parsed = None
    /\ pr_pc = "call"

NextPrice == PriceReturn

SpecPrice == InitPrice /\ [][NextPrice]_vars

-----------------------------------------------------------------------------
(* parser.py:76-123: parse_chunk called on its own *)

MaxItems == 2         \* items of the "products" list of a response
MaxContentLen == 2    \* characters of the content of a chunk

ExtractReturn ==
    /\ ex_pc = "call"
    /\ ex_out' = Some(parse_chunk(ex_raw, ex_resp))
    /\ ex_pc' = "done"
    /\ UNCHANGED <<ex_raw, ex_resp>>
    /\ UNCHANGED extract_rest

InitExtract ==
    /\ RunIdle
    /\ ChunkIdle
    /\ PriceIdle
    /\ FloatIdle
    /\ BotIdle
    /\ OverlapIdle
    /\ ex_raw \in {ProductRaw(c, u) : c \in SeqsUpTo({"a", " "}, MaxContentLen),
                                      u \in {"", CIMRI_TARGET_URLS[1]}}
    /\ ex_resp \in ExtractorResponses(MaxItems)
    /\ ex_out = None
    /\ ex_pc = "call"

NextExtract == ExtractReturn

SpecExtract == InitExtract /\ [][NextExtract]_vars

-----------------------------------------------------------------------------
(* main.py:140-142 and storage.py:130-135 in binary floating point.          *)
(* A natural number is the sequence of its limbs of LimbBits bits, lowest    *)
(* first, without leading zeros.  A float is m * 2^e with m of 53 bits (IEEE *)
(* 754 double, round to nearest, ties to even); zero has m = <<>>.  The      *)
(* prices are far from the underflow and overflow ranges.                    *)

Precision == 53
LimbBits == 14
Base == 2^LimbBits

Limb(a, i) == IF i \in 1..Len(a) THEN a[i] ELSE 0

Trim(a) ==
    LET nz == {i \in 1..Len(a) : a[i] # 0}
    IN  IF nz = {} THEN <<>>
        ELSE SubSeq(a, 1, CHOOSE i \in nz : \A j \in nz : j <= i)

\* the natural number of a model integer, and back
ToNat(n) == Trim(<<n % Base, (n \div Base) % Base, n \div (Base * Base)>>)
NatToInt(a) == Limb(a, 1) + Base * Limb(a, 2) + Base * Base * Limb(a, 3)

RECURSIVE AddCarry(_, _, _)
AddCarry(a, b, c) ==
    IF a = <<>> /\ b = <<>> THEN (IF c = 0 THEN <<>> ELSE <<c>>)
    ELSE LET t == Limb(a, 1) + Limb(b, 1) + c
         IN  <<t % Base>> \o AddCarry(IF a = <<>> THEN <<>> ELSE Tail(a),
                                      IF b = <<>> THEN <<>> ELSE Tail(b),
                                      t \div Base)
Add(a, b) == AddCarry(a, b, 0)

\* a - b for a >= b
RECURSIVE SubBorrow(_, _, _)
SubBorrow(a, b, c) ==
    IF a = <<>> THEN <<>>
    ELSE LET t == Head(a) - Limb(b, 1) - c
         IN  <<t % Base>> \o SubBorrow(Tail(a),
                                       IF b = <<>> THEN <<>> ELSE Tail(b),
                                       IF t < 0 THEN 1 ELSE 0)
Sub(a, b) == Trim(SubBorrow(a, b, 0))

\* a < b
Less(a, b) ==
    \E i \in 1..(Len(a) + Len(b)) :
        /\ Limb(a, i) < Limb(b, i)
        /\ \A j \in (i + 1)..(Len(a) + Len(b)) : Limb(a, j) = Limb(b, j)

\* a * x + c for one limb x
RECURSIVE MulLimb(_, _, _)
MulLimb(a, x, c) ==
    IF a = <<>> THEN (IF c = 0 THEN <<>> ELSE <<c>>)
    ELSE LET t == Head(a) * x + c
         IN  <<t % Base>> \o MulLimb(Tail(a), x, t \div Base)

RECURSIVE MulFrom(_, _)
MulFrom(a, b) ==
    IF b = <<>> THEN <<>>
    ELSE Add(MulLimb(a, Head(b), 0), <<0>> \o MulFrom(a, Tail(b)))
Mul(a, b) == Trim(MulFrom(a, b))

\* a * 2^k and a \div 2^k
Shl(a, k) ==
    Trim([i \in 1..(k \div LimbBits) |-> 0] \o MulLimb(a, 2^(k % LimbBits), 0))
Shr(a, k) ==
    LET b == SubSeq(a, (k \div LimbBits) + 1, Len(a))
        s == k % LimbBits
    IN  Trim([i \in 1..Len(b) |->
                 (b[i] \div 2^s) + (Limb(b, i + 1) % 2^s) * 2^(LimbBits - s)])

\* the number of bits of a, and its bit i, the lowest being bit 1
BitLen(a) ==
    IF a = <<>> THEN 0
    ELSE LimbBits * (Len(a) - 1)
           + (CHOOSE k \in 1..LimbBits : 2^(k - 1) <= a[Len(a)] /\ a[Len(a)] < 2^k)
Bit(a, i) ==
    (Limb(a, ((i - 1) \div LimbBits) + 1) \div 2^((i - 1) % LimbBits)) % 2
IsOdd(a) == Limb(a, 1) % 2 = 1

\* one step of the long division by d: the next bit of the dividend enters
\* the remainder
DivStep(st, bit, d) ==
    LET r2 == AddCarry(st.r, st.r, bit)
        ge == ~Less(r2, d)
    IN  [q |-> AddCarry(st.q, st.q, IF ge THEN 1 ELSE 0),
         r |-> IF ge THEN Sub(r2, d) ELSE r2]

\* quotient and remainder of n by d # 0 by long division; the bits of n above
\* the lowest BitLen(n) - BitLen(d) + 1 are less than d already.  Steps does
\* the steps for the bits hi down to lo of n, the upper half of the bits
\* before the lower half.
DivStates == [q : Seq(0..(Base - 1)), r : Seq(0..(Base - 1))]
DivMod(n, d) ==
    LET top == IF BitLen(n) < BitLen(d) THEN 0 ELSE BitLen(n) - BitLen(d) + 1
        Steps[st \in DivStates, hi \in Int, lo \in Int] ==
            IF hi < lo THEN st
            ELSE IF hi = lo THEN DivStep(st, Bit(n, hi), d)
            ELSE Steps[Steps[st, hi, ((hi + lo) \div 2) + 1], (hi + lo) \div 2, lo]
    IN  Steps[[q |-> <<>>, r |-> Shr(n, top)], top, 1]

\* the integer nearest to n / d, ties to even
RoundQuotient(n, d) ==
    LET qr == DivMod(n, d)
        twice == Add(qr.r, qr.r)
        up == Less(d, twice) \/ (twice = d /\ IsOdd(qr.q))
    IN  IF up THEN Add(qr.q, <<1>>) ELSE qr.q

\* the float nearest to (n / d) * 2^e, ties to even
FloatOf(n, d, e) ==
    IF n = <<>> THEN [m |-> <<>>, e |-> 0]
    ELSE LET k0 == Precision + BitLen(d) - BitLen(n)
             scaled(k) == IF k >= 0 THEN [n |-> Shl(n, k), d |-> d]
                          ELSE [n |-> n, d |-> Shl(d, 0 - k)]
             q0 == DivMod(scaled(k0).n, scaled(k0).d).q
             k == IF BitLen(q0) > Precision THEN k0 - 1 ELSE k0
             m == RoundQuotient(scaled(k).n, scaled(k).d)
         IN  IF BitLen(m) > Precision
             THEN [m |-> Shr(m, 1), e |-> e - k + 1]
             ELSE [m |-> m, e |-> e - k]

\* the float of a decimal literal with two decimals: float("1.40")
FloatOfHundredths(n) == FloatOf(ToNat(n), ToNat(100), 0)

\* x - y for x >= y
FSub(x, y) ==
    IF y.m = <<>> THEN x
    ELSE LET lo == IF x.e < y.e THEN x.e ELSE y.e
         IN  FloatOf(Sub(Shl(x.m, x.e - lo), Shl(y.m, y.e - lo)), <<1>>, lo)

FDiv(x, y) == FloatOf(x.m, y.m, x.e - y.e)

FMul(x, y) == FloatOf(Mul(x.m, y.m), <<1>>, x.e + y.e)

\* x >= y, both not negative
FGe(x, y) ==
    IF y.m = <<>> THEN TRUE
    ELSE IF x.m = <<>> THEN FALSE
    ELSE LET lo == IF x.e < y.e THEN x.e ELSE y.e
         IN  ~Less(Shl(x.m, x.e - lo), Shl(y.m, y.e - lo))

\* round(x, 2) as an integer number of hundredths: the exact value of x
\* rounded to two decimals, ties to even
Round2(x) ==
    LET n == Mul(x.m, ToNat(100))
    IN  IF x.m = <<>> THEN 0
        ELSE IF x.e >= 0 THEN NatToInt(Shl(n, x.e))
        ELSE NatToInt(RoundQuotient(n, Shl(<<1>>, 0 - x.e)))

\* main.py:141 and storage.py:133: ((last - cur) / last) * 100, for cur <= last
DropPctFloat(last, cur) ==
    FMul(FDiv(FSub(FloatOfHundredths(last), FloatOfHundredths(cur)),
              FloatOfHundredths(last)),
         FloatOfHundredths(10000))

\* main.py:140-142: the prices and the threshold are floats
ShouldAlertFloat(last, cur, thr) ==
    /\ cur < last
    /\ FGe(DropPctFloat(last, cur), FloatOfHundredths(thr))

\* storage.py:130-135, for 0 < cur <= last
PriceDropPctFloat(last, cur) == Round2(DropPctFloat(last, cur))

MinCents == 130       \* the prices of the decision: 1.30 TL ..
MaxCents == 140       \* .. to 1.40 TL
MaxDrop == 10         \* the current price is at most this many kurus lower

Decide ==
    /\ fl_pc = "call"
    /\ fl_out' = Some([alert |-> ShouldAlertFloat(fl_last, fl_cur, fl_thr),
                       price_drop_pct |-> PriceDropPctFloat(fl_last, fl_cur)])
    /\ fl_pc' = "done"
    /\ UNCHANGED <<fl_last, fl_cur, fl_thr>>
    /\ UNCHANGED float_rest

InitFloat ==
    /\ RunIdle
    /\ ChunkIdle
    /\ PriceIdle
    /\ ExtractIdle
    /\ BotIdle
    /\ OverlapIdle
    /\ fl_last \in MinCents..MaxCents
    /\ fl_cur \in (MinCents - MaxDrop)..MaxCents
    /\ fl_cur <= fl_last
    /\ fl_last - fl_cur <= MaxDrop
    /\ fl_thr \in Thresholds
    /\ fl_out = None
    /\ fl_pc = "call"

NextFloat == Decide

SpecFloat == InitFloat /\ [][NextFloat]_vars

-----------------------------------------------------------------------------
(* bot.py:897-961 and 1009-1019: the polling loop of the bot and its restart. *)
(* Telegram holds an update until getUpdates is called with an offset above   *)
(* its id; a negative offset counts from the newest update and forgets the    *)
(* ones before it.                                                            *)

MaxUpdates == 3       \* updates the users cause
MaxBotFaults == 2     \* failed calls and crashes of the bot

\* getUpdates: the updates the server keeps and returns for the offset off
Confirmed(held, off) ==
    IF off < 0
    THEN SubSeq(held, IF Len(held) + off < 0 THEN 1 ELSE Len(held) + off + 1,
                Len(held))
    ELSE SelectSeq(held, LAMBDA u : u >= off)

\* a user sends a message to the bot
UserSends ==
    /\ bot_pc # "idle"
    /\ next_update <= MaxUpdates
    /\ server' = Append(server, next_update)
    /\ next_update' = next_update + 1
    /\ UNCHANGED <<bot_pc, offset, updates, handled, bot_faults>>
    /\ UNCHANGED bot_rest

\* bot.py:897-925: run_bot up to the loop; tg returns {} when the call failed
StartBot ==
    /\ bot_pc = "start"
    /\ \E ok \in BOOLEAN :
           LET stale_results == IF ok THEN Confirmed(server, -1) ELSE <<>>
           IN  /\ bot_faults + B2N(ok) <= MaxBotFaults
               /\ bot_faults' = bot_faults + B2N(ok)
               /\ server' = IF ok THEN stale_results ELSE server
               /\ offset' = IF stale_results # <<>>
                            THEN stale_results[Len(stale_results)] + 1
                            ELSE 0
    /\ bot_pc' = "poll"
    /\ UNCHANGED <<updates, next_update, handled>>
    /\ UNCHANGED bot_rest

\* bot.py:927-937 with get_updates, bot.py:252-255
Poll ==
    /\ bot_pc = "poll"
    /\ \E ok \in BOOLEAN :
           /\ bot_faults + B2N(ok) <= MaxBotFaults
           /\ bot_faults' = bot_faults + B2N(ok)
           /\ server' = IF ok THEN Confirmed(server, offset) ELSE server
           /\ updates' = IF ok THEN Confirmed(server, offset) ELSE <<>>
           /\ bot_pc' = IF updates' = <<>> THEN "poll" ELSE "handle"
    /\ UNCHANGED <<offset, next_update, handled>>
    /\ UNCHANGED bot_rest

\* bot.py:940: the offset after the update, set before it is handled
OffsetAfter(off, update_id, ok) == update_id + 1

\* bot.py:939-961: one update of the batch; ok is FALSE when handle_message
\* raised, which is logged and answered with an apology
HandleUpdate ==
    /\ bot_pc = "handle"
    /\ \E ok \in BOOLEAN :
           /\ bot_faults + B2N(ok) <= MaxBotFaults
           /\ bot_faults' = bot_faults + B2N(ok)
           /\ offset' = OffsetAfter(offset, Head(updates), ok)
           /\ handled' = IF ok THEN handled \cup {Head(updates)} ELSE handled
    /\ updates' = Tail(updates)
    /\ bot_pc' = IF Tail(updates) = <<>> THEN "poll" ELSE "handle"
    /\ UNCHANGED <<server, next_update>>
    /\ UNCHANGED bot_rest

\* bot.py:1009-1019: run_bot crashed, or the process was restarted; run_bot
\* starts again and its locals are lost
RestartBot ==
    /\ bot_pc \in {"poll", "handle"}
    /\ bot_faults < MaxBotFaults
    /\ bot_faults' = bot_faults + 1
    /\ bot_pc' = "start"
    /\ offset' = 0
    /\ updates' = <<>>
    /\ UNCHANGED <<server, next_update, handled>>
    /\ UNCHANGED bot_rest

InitBot ==
    /\ RunIdle
    /\ ChunkIdle
    /\ PriceIdle
    /\ ExtractIdle
    /\ FloatIdle
    /\ OverlapIdle
    /\ bot_pc = "start"
    /\ offset = 0
    /\ updates = <<>>
    /\ server = <<>>
    /\ next_update = 1
    /\ handled = {}
    /\ bot_faults = 0

NextBot == UserSends \/ StartBot \/ Poll \/ HandleUpdate \/ RestartBot

SpecBot == InitBot /\ [][NextBot]_vars

-----------------------------------------------------------------------------
(* api.py:229-250 with main.py:130-161: two runs in one process.  Both are    *)
(* coroutines of one event loop: the loop executes one of them at a time and  *)
(* changes over only where that one awaits.  get_last_price,                  *)
(* send_price_drop_alert and upsert_price do not await; the only await of the *)
(* reconciliation loop is the sleep of main.py:157 after an alert.            *)

Tasks == {1, 2}

\* the same records in both runs: each product once, u1 first
OverlapProducts ==
    {<<ProductData("p", p1, "m", "u1")>> : p1 \in ScrapedPrices}
        \cup {<<ProductData("p", p1, "m", "u1"), ProductData("p", p2, "m", "u2")>> :
                 p1 \in ScrapedPrices, p2 \in ScrapedPrices}

\* api.py:229-250 and main.py:45-128: the run is triggered and collects; it is
\* executed again, up to the loop of main.py:130, when the other run awaits
TriggerRun(t) ==
    /\ o_pc[t] = "idle"
    /\ o_holder = 0
    /\ o_pc' = [o_pc EXCEPT ![t] = "reconcile"]
    /\ o_holder' = t
    /\ UNCHANGED <<o_unique, o_idx, o_last, o_history, o_sent, o_now>>
    /\ UNCHANGED overlap_rest

\* main.py:159-175: upsert_price, then the next record or the summary and the
\* end of the run
OverlapPersist(t, previous_price) ==
    LET product == o_unique[o_idx[t]]
        after == PcAfter(NextIdx(o_idx[t], TRUE), o_unique)
    IN  /\ o_history' = UpsertHistory(o_history,
                            HistoryRecord(product, previous_price, 1, o_now))
        /\ o_now' = o_now + 1
        /\ o_idx' = [o_idx EXCEPT ![t] = NextIdx(o_idx[t], TRUE)]
        /\ o_pc' = [o_pc EXCEPT ![t] = IF after = "summary" THEN "done" ELSE after]
        /\ o_holder' = IF after = "summary" THEN 0 ELSE t

\* main.py:130-161: one record of the run the loop executes, up to the sleep of
\* main.py:157 or to the end of the iteration
OverlapReconcile(t) ==
    /\ o_pc[t] = "reconcile"
    /\ o_holder = t
    /\ LET product == o_unique[o_idx[t]]
           lp == get_last_price(o_history, product.product_url, TRUE)
       IN  IF ShouldAlert(lp, product.current_price, DefaultThreshold)
           THEN /\ o_sent' = Append(o_sent, [task |-> t,
                                             url |-> product.product_url,
                                             last |-> lp,
                                             price |-> product.current_price])
                /\ o_last' = [o_last EXCEPT ![t] = lp]
                /\ o_pc' = [o_pc EXCEPT ![t] = "alert_sleep"]
                /\ o_holder' = 0
                /\ UNCHANGED <<o_idx, o_history, o_now>>
           ELSE /\ OverlapPersist(t, lp)
                /\ UNCHANGED <<o_sent, o_last>>
    /\ UNCHANGED o_unique
    /\ UNCHANGED overlap_rest

\* main.py:157-161: the sleep is over and the loop executes the run again
OverlapWake(t) ==
    /\ o_pc[t] = "alert_sleep"
    /\ o_holder = 0
    /\ OverlapPersist(t, o_last[t])
    /\ UNCHANGED <<o_unique, o_sent, o_last>>
    /\ UNCHANGED overlap_rest

InitOverlap ==
    /\ RunIdle
    /\ ChunkIdle
    /\ PriceIdle
    /\ ExtractIdle
    /\ FloatIdle
    /\ BotIdle
    /\ o_unique \in OverlapProducts
    /\ o_pc = [t \in Tasks |-> "idle"]
    /\ o_idx = [t \in Tasks |-> 1]
    /\ o_last = [t \in Tasks |-> None]
    /\ o_history \in InitHistories
    /\ o_sent = <<>>
    /\ o_now = 1
    /\ o_holder = 0

NextOverlap ==
    \E t \in Tasks :
        \/ TriggerRun(t)
        \/ OverlapReconcile(t)
        \/ OverlapWake(t)

SpecOverlap == InitOverlap /\ [][NextOverlap]_vars

-----------------------------------------------------------------------------
(* Properties of the reconciliation loop, read off the calls in log *)

Lookups == {k \in 1..Len(log) : log[k].op = "get_last_price"}
Alerts  == {k \in 1..Len(log) : log[k].op = "send_price_drop_alert"}
Upserts == {k \in 1..Len(log) : log[k].op = "upsert_price"}

\* the alert call that follows the lookup at k, if any
AlertedAfter(k) ==
    /\ k < Len(log)
    /\ log[k + 1].op = "send_price_drop_alert"
    /\ log[k + 1].url = log[k].url

\* the lookup made for the record persisted at k
LookupOf(k) ==
    CHOOSE j \in Lookups :
        /\ j < k
        /\ log[j].url = log[k].url
        /\ \A i \in Lookups : (i < k /\ log[i].url = log[k].url) => i <= j

\* the percentage drop from last to current is at least thr, without rounding
DropAtLeast(last, current, thr) == (last - current) * 10000 >= thr * last

\* pct, in hundredths of a percent, is (last - current) / last * 100 rounded to
\* 2 decimals: no other multiple of 0.01 is nearer
IsRounded2(pct, last, current) ==
    2 * Abs(pct * last - (last - current) * 10000) <= last

\* the row of the store written by the upsert_price call at k
RowWritten(k) ==
    \E r \in price_history :
        /\ r.product_url = log[k].url
        /\ r.scraped_date = today
        /\ r.current_price = log[k].price
        /\ r.previous_price = log[k].prev
        /\ r.price_drop_pct = log[k].pct

\* C1: an alert is attempted for a record if and only if its lookup returned a
\* last price, the current price is strictly below it and the unrounded
\* percentage drop is at least the threshold; every alert follows such a lookup.
C1_AlertIffDrop ==
    /\ \A k \in Lookups :
           AlertedAfter(k) <=>
               /\ log[k].prev # None
               /\ log[k].price < Val(log[k].prev)
               /\ DropAtLeast(Val(log[k].prev), log[k].price, threshold)
    /\ \A k \in Alerts : k > 1 /\ (k - 1) \in Lookups /\ log[k - 1].url = log[k].url

\* C1 witness: at threshold 10 % the drop 100 -> 90 was alerted and the drop
\* 100 -> 96 was persisted without an alert.
C1_Witness ==
    /\ threshold = 1000
    /\ \E k \in Alerts : log[k].prev = Some(100) /\ log[k].price = 90
    /\ \E k \in Lookups :
           log[k].prev = Some(100) /\ log[k].price = 96 /\ ~AlertedAfter(k)

\* C2: a record whose lookup returned no price is not alerted and upsert_price
\* is called for it at once with previous_price and price_drop_pct absent;
\* when the write succeeds that is the row the store holds.
C2_FirstSighting ==
    \A k \in Lookups :
        log[k].prev = None =>
            /\ ~AlertedAfter(k)
            /\ (k + 1) \in Upserts
            /\ log[k + 1].url = log[k].url
            /\ log[k + 1].price = log[k].price
            /\ log[k + 1].prev = None
            /\ log[k + 1].pct = None
            /\ log[k + 1].ok => RowWritten(k + 1)

\* C2 witness: a first sighting was stored, at threshold 0.
C2_Witness ==
    /\ threshold = 0
    /\ \E k \in Lookups :
           /\ log[k].prev = None
           /\ log[k].ok
           /\ (k + 1) \in Upserts
           /\ log[k + 1].ok
           /\ \E r \in price_history :
                  r.product_url = log[k].url /\ r.scraped_date = today
                      /\ r.previous_price = None

UpsertCalls(url) == Cardinality({k \in Upserts : log[k].url = url})

\* C3: every valid record the loop has gone through has exactly one
\* upsert_price call, the records not reached yet have none, and the loop ends
\* only when every record has been gone through, whatever the alert deliveries
\* returned.
C3_PersistOnce ==
    /\ \A i \in 1..Len(unique_products) :
           ~IsInvalid(unique_products[i]) =>
               UpsertCalls(unique_products[i].product_url)
                   = IF i < idx THEN 1 ELSE 0
    /\ pc \in {"summary", "done"} => idx = Len(unique_products) + 1
    /\ pc \in {"reconcile", "alert_sleep"} => idx <= Len(unique_products)

\* C3 witness: an alert delivery failed, its record was persisted and a later
\* record was persisted too.
C3_Witness ==
    /\ pc = "done"
    /\ \E k \in Alerts :
           /\ ~log[k].ok
           /\ (k + 1) \in Upserts
           /\ log[k + 1].url = log[k].url
           /\ \E j \in Upserts : j > k + 1 /\ log[j].url # log[k].url

\* C4: a record whose price is strictly below the last price returned for it
\* is persisted with that last price as previous_price and with the drop
\* rounded to 2 decimals as price_drop_pct, alert or not: 100 -> 90 stores
\* 10.0 and 100 -> 96 stores 4.0.
C4_DropPersisted ==
    \A k \in Upserts :
        LET last == log[LookupOf(k)].prev
        IN  (last # None /\ log[k].price < Val(last)) =>
                /\ log[k].prev = last
                /\ log[k].pct # None
                /\ IsRounded2(Val(log[k].pct), Val(last), log[k].price)
                /\ (Val(last) = 100 /\ log[k].price = 90) => log[k].pct = Some(1000)
                /\ (Val(last) = 100 /\ log[k].price = 96) => log[k].pct = Some(400)
                /\ log[k].ok => RowWritten(k)

\* C4 witness: at threshold 5 % the store holds the alerted drop 100 -> 90 and
\* the drop 100 -> 96, which was not alerted.
C4_Witness ==
    /\ threshold = 500
    /\ Cardinality(Alerts) = 1
    /\ \E r \in price_history :
           /\ r.scraped_date = today
           /\ r.previous_price = Some(100)
           /\ r.current_price = 90
           /\ r.price_drop_pct = Some(1000)
    /\ \E r \in price_history :
           /\ r.scraped_date = today
           /\ r.previous_price = Some(100)
           /\ r.current_price = 96
           /\ r.price_drop_pct = Some(400)

\* C5 as stated: price_drop_pct is absent whenever there is no last price or
\* the current price is not below it.
C5_AbsentUnlessDrop ==
    \A k \in Upserts :
        LET last == log[LookupOf(k)].prev
        IN  (last = None \/ log[k].price >= Val(last)) => log[k].pct = None

\* C5 amended: price_drop_pct is absent exactly when the lookup returned no
\* last price; with a last price it is the change rounded to 2 decimals, for
\* any sign of the change: 0 when the price is unchanged and negative when it
\* went up.
C5_PctForEveryLastPrice ==
    \A k \in Upserts :
        LET last == log[LookupOf(k)].prev
        IN  /\ log[k].pct = None <=> last = None
            /\ last # None =>
                   /\ IsRounded2(Val(log[k].pct), Val(last), log[k].price)
                   /\ log[k].price = Val(last) => log[k].pct = Some(0)
                   /\ log[k].price > Val(last) => Val(log[k].pct) < 0

\* C5 witness: a price that went up, 96 -> 100, is stored with -4.17.
C5_Witness ==
    \E r \in price_history :
        /\ r.scraped_date = today
        /\ r.previous_price = Some(96)
        /\ r.current_price = 100
        /\ r.price_drop_pct = Some(0 - 417)

-----------------------------------------------------------------------------
(* Properties of the deduplication *)

ValidAt(j) == collected[j].current_price > 0

\* the positions of collected holding the first record with a positive price
\* of their product_url
FirstValid ==
    {j \in 1..Len(collected) :
        /\ ValidAt(j)
        /\ \A i \in 1..(j - 1) :
               ~(ValidAt(i) /\ collected[i].product_url = collected[j].product_url)}

\* the k-th smallest element of the set S of numbers
KthOf(S, k) == CHOOSE j \in S : Cardinality({i \in S : i < j}) = k - 1

\* C6: unique_products is the collected sequence cut down to the first record
\* with a valid price of every product_url, in collection order, so it holds
\* no product_url twice; the price given to upsert_price for a product_url is
\* the price of that first record.
C6_FirstCollectedWins ==
    /\ Len(unique_products) = Cardinality(FirstValid)
    /\ \A k \in 1..Len(unique_products) :
           unique_products[k] = collected[KthOf(FirstValid, k)]
    /\ \A a, b \in 1..Len(unique_products) :
           a # b => unique_products[a].product_url # unique_products[b].product_url
    /\ \A k \in Upserts :
           \E j \in FirstValid :
               /\ collected[j].product_url = log[k].url
               /\ collected[j].current_price = log[k].price

\* C6 witness: two sources collected the same product_url with different
\* valid prices and the store holds the price collected first.
C6_Witness ==
    /\ pc = "done"
    /\ \E i, j \in 1..Len(collected) :
           /\ i < j
           /\ collected[i].product_url = collected[j].product_url
           /\ collected[i].market_name # collected[j].market_name
           /\ ValidAt(i) /\ ValidAt(j)
           /\ collected[i].current_price # collected[j].current_price
           /\ \E r \in price_history :
                  /\ r.product_url = collected[i].product_url
                  /\ r.scraped_date = today
                  /\ r.current_price = collected[i].current_price
                  /\ r.market_name = collected[i].market_name

\* C7: every record of unique_products has a positive price and a non-empty
\* product_url.
C7_UniqueOnlyValid ==
    \A k \in 1..Len(unique_products) :
        /\ unique_products[k].current_price > 0
        /\ unique_products[k].product_url # ""

\* C7 witness: a record with a non-positive price was collected and a record
\* that got the page as product_url is in unique_products.
C7_Witness ==
    /\ \E j \in 1..Len(collected) : collected[j].current_price <= 0
    /\ \E k \in 1..Len(unique_products) :
           unique_products[k].product_url = CIMRI_TARGET_URLS[1]

DedupOf(recs) == DedupLoop([seen |-> {}, unique |-> <<>>], recs).unique

\* C8: the dedup step applied to its own output returns that output, for
\* unique_products and for the dedup of every collected sequence.
C8_DedupIdempotent ==
    /\ DedupOf(unique_products) = unique_products
    /\ DedupOf(DedupOf(collected)) = DedupOf(collected)

\* C8 witness: the dedup dropped a record and kept another.
C8_Witness ==
    /\ unique_products # <<>>
    /\ Len(unique_products) < Len(collected)
    /\ unique_products = DedupOf(collected)

Invalid == {j \in 1..Len(collected) : IsInvalid(collected[j])}

\* C9 as stated: no call of the store or the notifier is made for an invalid
\* record, and when the run ends total_errors counts every invalid record
\* that was collected.
C9_InvalidCounted ==
    /\ \A k \in Lookups \cup Alerts \cup Upserts : log[k].price > 0 /\ log[k].url # ""
    /\ pc = "done" => total_errors >= Cardinality(Invalid)

-----------------------------------------------------------------------------
(* Properties of chunk_text *)

\* the chunks from the k-th on are cut from text at or after pos, in order and
\* without overlap
RECURSIVE InOrderFrom(_, _)
InOrderFrom(pos, k) ==
    IF k > Len(chunks) THEN TRUE
    ELSE \E o \in pos..(Len(text) - Len(chunks[k])) :
             /\ Slice(text, o, o + Len(chunks[k])) = chunks[k]
             /\ InOrderFrom(o + Len(chunks[k]), k + 1)

\* C10: every chunk is non-blank and has at most chunk_size characters, and
\* the chunks are substrings of text in input order that do not overlap.
C10_ChunksBoundedInOrder ==
    /\ \A k \in 1..Len(chunks) :
           /\ ~IsBlank(chunks[k])
           /\ Len(chunks[k]) <= chunk_size
    /\ InOrderFrom(0, 1)

\* C10 witness: chunk_text returned a chunk cut at a newline before the
\* window's end and a chunk that fills its window.
C10_Witness ==
    /\ ck_pc = "done"
    /\ Len(text) > chunk_size
    /\ \E k \in 1..(Len(chunks) - 1) : Len(chunks[k]) < chunk_size
    /\ \E k \in 1..Len(chunks) : Len(chunks[k]) = chunk_size

\* the number of non-whitespace characters of s
RECURSIVE NonBlankCount(_)
NonBlankCount(s) ==
    IF s = <<>> THEN 0
    ELSE (IF Head(s) \in Whitespace THEN 0 ELSE 1) + NonBlankCount(Tail(s))

RECURSIVE NonBlankInChunks(_)
NonBlankInChunks(cs) ==
    IF cs = <<>> THEN 0 ELSE NonBlankCount(Head(cs)) + NonBlankInChunks(Tail(cs))

\* C11 as stated: chunk_text drops no non-whitespace character: the chunks it
\* returns, which are cut from text in order without overlap, hold as many
\* non-whitespace characters as text.
C11_NoContentDropped ==
    ck_pc = "done" => NonBlankInChunks(chunks) = NonBlankCount(text)

-----------------------------------------------------------------------------
(* C12, C13: _parse_tr_price *)

RECURSIVE Pow10(_)
Pow10(n) == IF n = 0 THEN 1 ELSE 10 * Pow10(n - 1)

\* the number a string of digits and separators reads as once the separators
\* are taken out, the last digit weighing 1
RECURSIVE DigitSum(_)
DigitSum(ds) ==
    IF ds = <<>> THEN 0
    ELSE DigitValue[Head(ds)] * Pow10(Len(ds) - 1) + DigitSum(Tail(ds))

Hundredths(s) == DigitSum(SelectSeq(s, LAMBDA c : c \in Digits))

\* C12: for a well-formed Turkish price string (integer part with period
\* thousands groups, a comma, two decimals, optional currency sign)
\* _parse_tr_price returns the numerically equivalent value: the number with
\* two decimals whose hundredfold is the integer spelled by the digits of the
\* string.
C12_TrPriceValue ==
    (pr_pc = "done" /\ raw \in TrPrices) =>
        /\ parsed # None
        /\ Val(parsed).kind = "num"
        /\ Val(parsed).scale = 2
        /\ Val(parsed).num = Hundredths(raw)

\* '1.249,90 TL' has been parsed to 1249.90
C12_Witness ==
    /\ pr_pc = "done"
    /\ raw = <<"1", ".", "2", "4", "9", ",", "9", "0", " ", "LIRA">>
    /\ parsed = Some(Float(124990, 2))

\* C13 as stated: _parse_tr_price returns for every string, and returns 0.0
\* for the empty string and for every string without a digit.
C13_NoDigitIsZero ==
    pr_pc = "done" =>
        /\ parsed # None
        /\ (\A i \in DOMAIN raw : raw[i] \notin Digits) =>
               (Val(parsed).kind = "num" /\ Val(parsed).num = 0)

-----------------------------------------------------------------------------
(* C14, C15: failures of the collectors and the end of the run *)

\* C14 as stated: collector isolation: whatever happens in scrape_cimri,
\* scrape_essen_direct or scrape_bizimtoptan_direct, a failure to start the
\* browser or crawler included, the step adds no record of that source at
\* worst and the run goes on to the next source or to the reconciliation.
C14_CollectorIsolated ==
    [][(pc \in {"cimri", "essen", "bizim"}) =>
          (pc' \in {"cimri_parse", "essen", "bizim", "reconcile", "summary"})]_vars

\* C15 as stated: a run that got past the configuration does not end before
\* send_daily_summary was called: when run() has returned or raised, the
\* last call logged is the summary with the three totals.
C15_SummaryBeforeEnd ==
    pc \in {"done", "crashed"} =>
        /\ log # <<>>
        /\ log[Len(log)] = Event("send_daily_summary", "", total_scraped,
                                 Some(total_alerts), Some(total_errors), TRUE)

-----------------------------------------------------------------------------
(* C16: load_config *)

\* a setting that is not set, or is set to whitespace only
Unset(v) == v = None \/ \A i \in DOMAIN Val(v) : Val(v)[i] \in Whitespace

\* C16: when a required setting is missing or blank the run aborts in
\* load_config before any work: no record was collected or extracted and
\* neither the store nor the notifier was called.  When all are present the
\* run is not aborted for that reason (only a PRICE_DROP_THRESHOLD that is
\* not a number aborts it), and an unset threshold is 5.0.
C16_ConfigGate ==
    LET lacking == \E key \in RequiredKeys : Unset(environ.required[key])
    IN  /\ (pc # "config" /\ lacking) =>
               /\ pc = "aborted"
               /\ log = <<>> /\ collected = <<>> /\ cimri_items = <<>>
               /\ unique_products = <<>> /\ products = {}
               /\ \A r \in price_history : r.scraped_at = 0
               /\ total_scraped = 0 /\ faults = 0
        /\ (pc = "aborted" /\ ~lacking) =>
               (environ.threshold # None /\ ~Val(environ.threshold).is_float)
        /\ (pc \notin {"config", "aborted"} /\ environ.threshold = None) =>
               threshold = 500

\* TELEGRAM_CHAT_ID is a blank, everything else is set: the run aborted
C16_Witness ==
    /\ pc = "aborted"
    /\ environ.required["TELEGRAM_CHAT_ID"] = Some(<<" ">>)
    /\ \A key \in RequiredKeys \ {"TELEGRAM_CHAT_ID"} :
           environ.required[key] = Some(<<"v">>)
    /\ log = <<>>

-----------------------------------------------------------------------------
(* C17, C18: runs one after the other on the same store *)

OkUpsertsOf(url) ==
    {k \in DOMAIN log : log[k].op = "upsert_price" /\ log[k].ok /\ log[k].url = url}

\* C17: after any sequence of runs the table price_history holds at most one
\* row per (product_url, scraped_date), and the row of the current date is
\* the one the last successful upsert_price of that product wrote: a second
\* upsert on the same date replaces the row.
C17_OneRowPerDay ==
    /\ \A r1 \in price_history : \A r2 \in price_history :
           (r1.product_url = r2.product_url /\ r1.scraped_date = r2.scraped_date)
               => r1 = r2
    /\ \A url \in ProductUrls :
           OkUpsertsOf(url) # {} =>
               LET last == CHOOSE k \in OkUpsertsOf(url) :
                               \A j \in OkUpsertsOf(url) : j <= k
               IN  \E r \in price_history :
                       /\ r.product_url = url
                       /\ r.scraped_date >= 1
                       /\ r.current_price = log[last].price
                       /\ r.previous_price = log[last].prev
                       /\ r.price_drop_pct = log[last].pct
                       /\ \A q \in RowsOf(price_history, url) :
                              q.scraped_at <= r.scraped_at

\* two runs on day 1 wrote u1 with different prices, and one row of day 1 is
\* left, holding the second price
C17_Witness ==
    /\ today = 1
    /\ runs = 2
    /\ \E k \in OkUpsertsOf("u1") : \E j \in OkUpsertsOf("u1") :
           k < j /\ log[k].price = 90 /\ log[j].price = 96
    /\ Cardinality({r \in price_history :
                       r.product_url = "u1" /\ r.scraped_date = 1}) = 1
    /\ \E r \in price_history :
           r.product_url = "u1" /\ r.scraped_date = 1 /\ r.current_price = 96

\* C18 as stated: a same-day re-run is idempotent: two successful
\* upsert_price calls of the same day for the same product with the same
\* collected price, each after a lookup that found the store available,
\* write the same previous_price and price_drop_pct.
C18_SameDayRerunIdempotent ==
    today = 1 =>
        \A url \in ProductUrls :
            \A k \in OkUpsertsOf(url) : \A j \in OkUpsertsOf(url) :
                (/\ log[k].price = log[j].price
                 /\ log[LookupOf(k)].ok
                 /\ log[LookupOf(j)].ok) =>
                    (log[k].prev = log[j].prev /\ log[k].pct = log[j].pct)

-----------------------------------------------------------------------------
(* C19, C20: failures of the store inside the loop *)

FailedUpserts == {k \in Upserts : ~log[k].ok}

\* C19: a get_last_price call that found the store unavailable returned no
\* price; no alert follows it, the upsert_price call of the record follows
\* with previous_price and price_drop_pct absent (and writes the row so when
\* the write succeeds), total_errors counts only the failed writes, and the
\* run goes on.
C19_LookupFailureDegrades ==
    \A k \in Lookups :
        ~log[k].ok =>
            /\ log[k].prev = None
            /\ ~AlertedAfter(k)
            /\ k < Len(log)
            /\ log[k + 1].op = "upsert_price"
            /\ log[k + 1].url = log[k].url
            /\ log[k + 1].price = log[k].price
            /\ log[k + 1].prev = None
            /\ log[k + 1].pct = None
            /\ log[k + 1].ok =>
                   \E r \in price_history :
                       /\ r.product_url = log[k].url
                       /\ r.scraped_date = today
                       /\ r.current_price = log[k].price
                       /\ r.previous_price = None
            /\ total_errors = Cardinality(FailedUpserts)
            /\ pc \in {"reconcile", "alert_sleep", "summary", "done"}

\* the store held u1 at 100, u1 came at 90, the lookup failed: the run ended
\* with the row written, no alert and no error counted
C19_Witness ==
    /\ pc = "done"
    /\ \E r \in price_history :
           r.product_url = "u1" /\ r.scraped_date = 0 /\ r.current_price = 100
    /\ \E k \in Lookups :
           /\ ~log[k].ok /\ log[k].url = "u1" /\ log[k].price = 90
           /\ log[k + 1].op = "upsert_price" /\ log[k + 1].ok
    /\ total_errors = 0
    /\ total_alerts = 0

\* the position in unique_products of the record with this URL
PositionOf(url) ==
    CHOOSE i \in DOMAIN unique_products : unique_products[i].product_url = url

\* C20: a failed price_history write is reported by upsert_price as False
\* and counted once: total_errors is the number of failed upsert_price calls,
\* the failed call left no row of today for the product, and once the loop
\* has ended every record after the failed one has had its lookup and its
\* upsert_price call, after the failed call.
C20_WriteFailureCounted ==
    /\ total_errors = Cardinality(FailedUpserts)
    /\ \A k \in FailedUpserts :
           /\ ~\E r \in price_history :
                  r.product_url = log[k].url /\ r.scraped_date = today
           /\ pc \in {"reconcile", "alert_sleep", "summary", "done"}
           /\ pc \in {"summary", "done"} =>
                  \A i \in DOMAIN unique_products :
                      i > PositionOf(log[k].url) =>
                          /\ \E j \in Lookups :
                                 j > k /\ log[j].url = unique_products[i].product_url
                          /\ \E j \in Upserts :
                                 j > k /\ log[j].url = unique_products[i].product_url

\* two records, the write of the first failed, the second was written
C20_Witness ==
    /\ pc = "done"
    /\ Len(unique_products) = 2
    /\ total_errors = 1
    /\ \E k \in FailedUpserts :
           /\ log[k].url = unique_products[1].product_url
           /\ \E j \in Upserts :
                  j > k /\ log[j].ok /\ log[j].url = unique_products[2].product_url
    /\ \E r \in price_history :
           r.product_url = unique_products[2].product_url /\ r.scraped_date = today

-----------------------------------------------------------------------------
(* C21: parse_chunk *)

WellFormedOf(items) == SelectSeq(items, LAMBDA item : item.well_formed)

AllBlank(content) == \A i \in DOMAIN content : content[i] \in Whitespace

\* C21: parse_chunk returns a list for every chunk and every behaviour of the
\* client: the empty list when the content is blank or the call or the
\* decoding failed, and otherwise one record for each well-formed item, in
\* the order of the response, the malformed items between them skipped.
C21_ExtractorFailSafe ==
    ex_pc = "done" =>
        /\ ex_out # None
        /\ (AllBlank(ex_raw.content) \/ ex_resp.status # "ok") => Val(ex_out) = <<>>
        /\ (~AllBlank(ex_raw.content) /\ ex_resp.status = "ok") =>
               LET good == WellFormedOf(ex_resp.items)
               IN  /\ Len(Val(ex_out)) = Len(good)
                   /\ \A k \in 1..Len(good) :
                          Val(ex_out)[k].current_price = good[k].current_price

\* a malformed item before a well-formed one: the well-formed one is returned
C21_Witness ==
    /\ ex_pc = "done"
    /\ ~AllBlank(ex_raw.content)
    /\ ex_resp.status = "ok"
    /\ Len(ex_resp.items) = 2
    /\ ~ex_resp.items[1].well_formed
    /\ ex_resp.items[2].well_formed
    /\ Len(Val(ex_out)) = 1

-----------------------------------------------------------------------------
(* C22: collection before reconciliation *)

\* C22: the first call of the store or the notifier is made by the loop of
\* main.py:130, after the last collector and the last extractor call, and
\* from that call on no collector or extractor step is taken, no chunk is
\* left to parse and the deduplicated list stays as it is.
C22_CollectThenReconcile ==
    [][(log' # <<>>) =>
          (/\ pc' \in {"reconcile", "alert_sleep", "summary", "done"}
           /\ pc \in {"reconcile", "alert_sleep", "summary"}
           /\ cimri_items' = <<>>
           /\ unique_products' = unique_products
           /\ collected' = collected
           /\ seen_urls' = seen_urls)]_vars

\* a run that collected from cimri and from Bizim Toptan and then persisted
\* both records
C22_Witness ==
    /\ pc = "done"
    /\ Len(unique_products) = 2
    /\ unique_products[1].market_name = "cimri"
    /\ unique_products[2].market_name = "Bizim Toptan"
    /\ Cardinality(Upserts) = 2

-----------------------------------------------------------------------------
(* C23: one record at a time, no retry *)

CallsOf(op, url) == {k \in DOMAIN log : log[k].op = op /\ log[k].url = url}

\* C23: the calls of a run come record by record, in the order of
\* unique_products: the lookup of a valid record, then at most one alert
\* attempt, then its upsert_price, and only then the lookup of the next
\* record; no product_url has more than one lookup, one alert attempt or one
\* upsert_price in the run, whatever failed.
C23_RecordByRecord ==
    /\ \A k \in DOMAIN log :
           /\ log[k].op = "get_last_price" =>
                  /\ k = 1 \/ log[k - 1].op = "upsert_price"
                  /\ LET n == Cardinality({j \in Lookups : j <= k})
                     IN  /\ n <= Len(unique_products)
                         /\ unique_products[n].product_url = log[k].url
                         /\ unique_products[n].current_price = log[k].price
                         /\ ~IsInvalid(unique_products[n])
           /\ log[k].op = "send_price_drop_alert" =>
                  /\ k > 1
                  /\ log[k - 1].op = "get_last_price"
                  /\ log[k - 1].url = log[k].url
           /\ log[k].op = "upsert_price" =>
                  /\ k > 1
                  /\ log[k - 1].op \in {"get_last_price", "send_price_drop_alert"}
                  /\ log[k - 1].url = log[k].url
           /\ log[k].op = "send_daily_summary" =>
                  /\ k = Len(log)
                  /\ k = 1 \/ log[k - 1].op = "upsert_price"
    /\ \A url \in Urls :
           \A op \in {"get_last_price", "send_price_drop_alert", "upsert_price"} :
               Cardinality(CallsOf(op, url)) <= 1

\* two records; the write of the first failed, and the run ended with one
\* lookup and one upsert_price for each
C23_Witness ==
    /\ pc = "done"
    /\ Len(unique_products) = 2
    /\ Len(log) = 5
    /\ log[1].op = "get_last_price" /\ log[2].op = "upsert_price" /\ ~log[2].ok
    /\ log[3].op = "get_last_price" /\ log[4].op = "upsert_price"
    /\ log[3].url # log[1].url

-----------------------------------------------------------------------------
(* C24: the previous price is the one looked up before the write *)

\* C24: every upsert_price call carries as previous_price the value the
\* get_last_price call of the same record returned earlier in the run, the
\* row it writes stores that value, and the value is the price the store held
\* before the run (or none, when it held none or the lookup failed), never
\* the price the call itself writes.
C24_PreviousFromLookup ==
    \A k \in Upserts :
        /\ \E j \in Lookups : j < k /\ log[j].url = log[k].url
        /\ log[k].prev = log[LookupOf(k)].prev
        /\ log[LookupOf(k)].ok =>
               LET before == {r \in price_history :
                                 r.product_url = log[k].url /\ r.scraped_at = 0}
               IN  IF before = {} THEN log[k].prev = None
                   ELSE \E r \in before : log[k].prev = Some(r.current_price)
        /\ ~log[LookupOf(k)].ok => log[k].prev = None
        /\ log[k].ok =>
               \E r \in price_history :
                   /\ r.product_url = log[k].url
                   /\ r.scraped_date = today
                   /\ r.current_price = log[k].price
                   /\ r.previous_price = log[k].prev

\* u1 was at 100 and came at 90: the row of today holds 90 with previous
\* price 100
C24_Witness ==
    /\ pc = "done"
    /\ \E k \in Upserts :
           /\ log[k].ok /\ log[k].url = "u1" /\ log[k].price = 90
           /\ log[LookupOf(k)].prev = Some(100)
    /\ \E r \in price_history :
           /\ r.product_url = "u1" /\ r.scraped_date = today
           /\ r.current_price = 90 /\ r.previous_price = Some(100)

-----------------------------------------------------------------------------
(* C25: the threshold comparison *)

Caused == 1..(next_update - 1)

\* C26: the offset is above an update only when that update has been handled,
\* and an update Telegram no longer holds has been handled.
C26_OffsetAfterHandling ==
    \A u \in Caused :
        (u < offset \/ \A i \in 1..Len(server) : server[i] # u) => u \in handled

-----------------------------------------------------------------------------
(* C27: the URL fallback of the extractor and the deduplication *)

SourcePages == {CIMRI_TARGET_URLS[k] : k \in DOMAIN CIMRI_TARGET_URLS}

\* the collected records that carry the page s as their URL and can be kept
KeepableOf(s) ==
    {k \in DOMAIN collected :
        collected[k].product_url = s /\ collected[k].current_price > 0}

SurvivorsOf(s) ==
    {j \in DOMAIN unique_products : unique_products[j].product_url = s}

\* C27: no record of a run carries an empty or placeholder URL: the items
\* without a URL carry the URL of their page.  Of the records that carry the
\* URL of one page, the first with a positive price, and no other, survives
\* deduplication, and it is persisted at most once.
C27_UrlFallback ==
    /\ \A k \in DOMAIN collected :
           /\ ~IsPlaceholderUrl(collected[k].product_url)
           /\ collected[k].product_url \in Urls
    /\ \A s \in SourcePages :
           /\ Cardinality(SurvivorsOf(s)) <= 1
           /\ SurvivorsOf(s) # {} <=> KeepableOf(s) # {}
           /\ \A j \in SurvivorsOf(s) :
                  \E k \in KeepableOf(s) :
                      /\ unique_products[j] = collected[k]
                      /\ \A i \in KeepableOf(s) : k <= i
           /\ UpsertCalls(s) <= Cardinality(SurvivorsOf(s))

\* C27 witness: two records without a URL from one page, the first with price
\* 0; the second survives and has been persisted.
C27_Witness ==
    /\ pc = "done"
    /\ \E s \in SourcePages :
           /\ Len(collected) = 2
           /\ collected[1].product_url = s
           /\ collected[2].product_url = s
           /\ collected[1].current_price = 0
           /\ Len(unique_products) = 1
           /\ unique_products[1] = collected[2]
           /\ \E r \in price_history : r.product_url = s /\ r.scraped_date = today

-----------------------------------------------------------------------------
(* C28: no repeated alert in a same-day re-run *)

AlertsOf(url) == {k \in Alerts : log[k].url = url}

\* the price of the alert at k was persisted before the call at j, and no
\* other price of the product after it
PersistedBetween(k, j) ==
    /\ \E w \in OkUpsertsOf(log[k].url) :
           k < w /\ w < j /\ log[w].price = log[k].price
    /\ \A w \in OkUpsertsOf(log[k].url) :
           (k < w /\ w < j) => log[w].price = log[k].price

\* C28: on one day, after a run attempted an alert for a product and persisted
\* its price, a later run that collects the same price for the product
\* attempts no alert for it.
C28_NoRepeatedAlert ==
    today = 1 =>
        \A url \in ProductUrls :
            \A k \in AlertsOf(url) : \A j \in AlertsOf(url) :
                (k < j /\ log[k].price = log[j].price) => ~PersistedBetween(k, j)

\* C28 witness: both runs of the day collected u1 at 90 and looked its last
\* price up; the first alerted and persisted, the second did not alert.
C28_Witness ==
    /\ runs = 2
    /\ today = 1
    /\ pc = "done"
    /\ Cardinality(AlertsOf("u1")) = 1
    /\ \E k \in AlertsOf("u1") : \E j \in Lookups :
           /\ log[k].price = 90
           /\ log[k].ok
           /\ k < j
           /\ log[j].url = "u1"
           /\ log[j].price = 90
           /\ log[j].ok
           /\ log[j].prev = Some(90)
           /\ PersistedBetween(k, j)

-----------------------------------------------------------------------------
(* C29: overlapping runs *)

\* C29 as stated: of two runs in one process, at most one sends the alert of
\* a product for a drop from one last price to one collected price.
C29_OneAlertPerDrop ==
    \A i \in DOMAIN o_sent : \A j \in DOMAIN o_sent :
        (/\ o_sent[i].url = o_sent[j].url
         /\ o_sent[i].last = o_sent[j].last
         /\ o_sent[i].price = o_sent[j].price) => i = j

-----------------------------------------------------------------------------
(* C30: chunk_text terminates *)

\* C30: every iteration of the while loop that does not leave the loop moves
\* start forward, and every call of chunk_text returns.
C30_ChunkTextTerminates ==
    /\ [][(ck_pc = "loop" /\ ck_pc' = "loop") => start' > start]_vars
    /\ <>(ck_pc = "done")

\* C30 witness: chunk_text returned for a text longer than chunk_size whose
\* only newline is the first character of the first window; the loop went on
\* behind that window.
C30_Witness ==
    /\ ck_pc = "done"
    /\ Len(text) > chunk_size
    /\ text[1] = "\n"
    /\ \A i \in 2..Len(text) : text[i] # "\n"
    /\ start >= chunk_size
    /\ Len(chunks) >= 2

====
